---- MODULE Spec2Model ----
(***************************************************************************)
(* django-shouty-templates (shouty.py): the suppression policy, the merge  *)
(* of built-in and user rule tables, the three hooks installed by patch()  *)
(* and the source locator, as a state machine.                             *)
(*                                                                         *)
(* Python lists and tuples are sequences, dicts are functions whose        *)
(* DOMAIN is the key set, None is the value None.                          *)
(***************************************************************************)
EXTENDS Integers, Sequences, FiniteSets, TLC

VARIABLES settings, hook, shouty, installs, last, rules, failure, threads

vars == <<settings, hook, shouty, installs, last, rules, failure, threads>>

None == "None"

\* ------------------------------------------------------------------------
\* Bounds of the model
\* ------------------------------------------------------------------------
MaxScope == 2        \* longest template list of one rule key
MaxCandidates == 2   \* longest candidate name list handed to is_silenced
MaxFlat == 2         \* longest flat user list
MaxInstalls == 4     \* cap of the per-hook assignment counter

\* ------------------------------------------------------------------------
\* Program constants (shouty.py 27, 89-90)
\* ------------------------------------------------------------------------
UNKNOWN_SOURCE == "<unknown source>"
ANY_TEMPLATE == "*"
ANY_VARIABLE == "*"

\* ------------------------------------------------------------------------
\* list / dict helpers
\* ------------------------------------------------------------------------
\* x in lst
In(x, lst) == \E i \in DOMAIN lst : lst[i] = x

\* set(lst)
Elems(lst) == {lst[i] : i \in DOMAIN lst}

\* d.get(k, [])
Get(d, k) == IF k \in DOMAIN d THEN d[k] ELSE <<>>

\* {}
EmptyDict == [k \in {} |-> <<>>]

\* d.setdefault(var, []); d[var].extend(templates)
SetDefaultExtend(d, var, templates) ==
    [k \in DOMAIN d \cup {var} |->
        IF k = var THEN Get(d, k) \o templates ELSE d[k]]

\* for var, templates in table.items(): setdefault + extend.  Every key
\* occurs once in a dict, so the iteration order does not matter.
ExtendFromDict(d, table) ==
    [k \in DOMAIN d \cup DOMAIN table |-> Get(d, k) \o Get(table, k)]

\* for var in lst: d.setdefault(var, []); d[var].append(ANY_TEMPLATE)
RECURSIVE AppendAnyTemplate(_, _)
AppendAnyTemplate(d, lst) ==
    IF lst = <<>> THEN d
    ELSE AppendAnyTemplate(SetDefaultExtend(d, Head(lst), <<ANY_TEMPLATE>>),
                           Tail(lst))

\* all sequences over S of length <= n
SeqsUpTo(S, n) == UNION {[1..k -> S] : k \in 0..n}

\* the (key, template) pairs of a rule mapping
Pairs(d) == UNION {{<<k, t>> : t \in Elems(d[k])} : k \in DOMAIN d}

\* ------------------------------------------------------------------------
\* Built-in tables (the rows the model's lookups touch; the other rows of
\* the source tables have the same three shapes: a key scoped to ANY_TEMPLATE,
\* a key scoped to named templates, a key present in both tables)
\* ------------------------------------------------------------------------
VARIABLE_BLACKLIST ==
    [k \in {"subtitle", "is_popup", "template_info.name"} |->
        CASE k = "subtitle" -> <<"admin/base_site.html">>
          [] k = "is_popup" -> <<ANY_TEMPLATE>>
          [] k = "template_info.name" -> <<UNKNOWN_SOURCE>>]

IF_VARIABLE_BLACKLIST ==
    [k \in {"pat.name", "subtitle"} |->
        CASE k = "pat.name" -> <<UNKNOWN_SOURCE>>
          [] k = "subtitle" -> <<"admin/base.html", "admin/base_site.html">>]

IF_ELSE_BLACKLIST ==
    [k \in {"if model.admin_url and show_changelinks"} |->
        <<"admin/app_list.html">>]

\* ------------------------------------------------------------------------
\* User configuration: settings.SHOUTY_VARIABLE_BLACKLIST is a mapping
\* (has .items) or a flat iterable
\* ------------------------------------------------------------------------
DictConfig(items) == [kind |-> "dict", items |-> items, elements |-> <<>>]
ListConfig(elements) == [kind |-> "list", items |-> <<>>, elements |-> elements]

\* getattr(settings, "SHOUTY_VARIABLE_BLACKLIST", ())
DefaultUserBlacklist == ListConfig(<<>>)

MergeUser(d, user_blacklist) ==
    IF user_blacklist.kind = "dict"
    THEN ExtendFromDict(d, user_blacklist.items)
    ELSE AppendAnyTemplate(d, user_blacklist.elements)

\* user entries assigned over the built-in ones instead of extending them
variable_blacklist_user_replaces(user_blacklist) ==
    LET builtin == ExtendFromDict(ExtendFromDict(EmptyDict, VARIABLE_BLACKLIST),
                                  IF_VARIABLE_BLACKLIST)
        user == MergeUser(EmptyDict, user_blacklist)
    IN  [k \in DOMAIN builtin \cup DOMAIN user |->
            IF k \in DOMAIN user THEN user[k] ELSE builtin[k]]

variable_blacklist(user_blacklist) ==
    MergeUser(ExtendFromDict(ExtendFromDict(EmptyDict, VARIABLE_BLACKLIST),
                             IF_VARIABLE_BLACKLIST),
              user_blacklist)

if_else_blacklist(user_blacklist) ==
    MergeUser(ExtendFromDict(EmptyDict, IF_ELSE_BLACKLIST), user_blacklist)

\* ------------------------------------------------------------------------
\* Suppression policy
\* ------------------------------------------------------------------------
is_silenced_listed_means_silenced(whole_var, template_name, blacklist, all_template_names) ==
    LET ignored_templates_for_this_var == Get(blacklist, whole_var)
        ignored_templates_for_any_var == Get(blacklist, ANY_VARIABLE)
    IN  IF whole_var \in DOMAIN blacklist /\ ignored_templates_for_this_var = <<>>
             /\ ignored_templates_for_any_var = <<>> THEN TRUE
        ELSE IF In(ANY_TEMPLATE, ignored_templates_for_this_var) THEN TRUE
        ELSE IF In(template_name, ignored_templates_for_this_var) THEN TRUE
        ELSE IF \E i \in DOMAIN all_template_names :
                   In(all_template_names[i], ignored_templates_for_this_var) THEN TRUE
        ELSE IF \E i \in DOMAIN all_template_names :
                   In(all_template_names[i], ignored_templates_for_any_var) THEN TRUE
        ELSE IF In(template_name, ignored_templates_for_any_var) THEN TRUE
        ELSE FALSE

is_silenced_no_resolved_any_var(whole_var, template_name, blacklist, all_template_names) ==
    LET ignored_templates_for_this_var == Get(blacklist, whole_var)
        ignored_templates_for_any_var == Get(blacklist, ANY_VARIABLE)
    IN  IF In(ANY_TEMPLATE, ignored_templates_for_this_var) THEN TRUE
        ELSE IF In(template_name, ignored_templates_for_this_var) THEN TRUE
        ELSE IF \E i \in DOMAIN all_template_names :
                   In(all_template_names[i], ignored_templates_for_this_var) THEN TRUE
        ELSE IF \E i \in DOMAIN all_template_names :
                   In(all_template_names[i], ignored_templates_for_any_var) THEN TRUE
        ELSE FALSE

is_silenced(whole_var, template_name, blacklist, all_template_names) ==
    LET ignored_templates_for_this_var == Get(blacklist, whole_var)
        ignored_templates_for_any_var == Get(blacklist, ANY_VARIABLE)
    IN  IF In(ANY_TEMPLATE, ignored_templates_for_this_var) THEN TRUE
        ELSE IF In(template_name, ignored_templates_for_this_var) THEN TRUE
        ELSE IF \E i \in DOMAIN all_template_names :
                   In(all_template_names[i], ignored_templates_for_this_var) THEN TRUE
        ELSE IF \E i \in DOMAIN all_template_names :
                   In(all_template_names[i], ignored_templates_for_any_var) THEN TRUE
        ELSE IF In(template_name, ignored_templates_for_any_var) THEN TRUE
        ELSE FALSE

\* ------------------------------------------------------------------------
\* patch(): the three host classes, their hook attribute and _shouty flag
\* ------------------------------------------------------------------------
Classes == {"Variable", "IfNode", "URLNode"}

\* values handed to patch(); `x is True` holds of the bool True only, "1"
\* stands for a truthy value that is not the bool
FlagValues == {"True", "False", "1"}

IsTrue(x) == x = "True"

\* Variable._resolve_lookup / IfNode.render / URLNode.render, the _shouty
\* attributes (getattr(..., "_shouty", False)) and the number of assignments
\* made to each hook attribute
Unpatched ==
    [hook |-> [c \in Classes |-> "old"],
     shouty |-> [c \in Classes |-> FALSE],
     installs |-> [c \in Classes |-> 0]]

Min(a, b) == IF a < b THEN a ELSE b

\* a call of patch() in progress: its position, arguments, the class whose
\* block it is in, the local patched_* it read, and its return value
NewCall(invalid_variables, invalid_urls) ==
    [pc |-> "debug", invalid_variables |-> invalid_variables,
     invalid_urls |-> invalid_urls, cls |-> None, patched |-> FALSE,
     value |-> None]

IdleCall ==
    [pc |-> "idle", invalid_variables |-> "False", invalid_urls |-> "False",
     cls |-> None, patched |-> FALSE, value |-> None]

\* the statement after the block of class c
AfterClass(t, c) ==
    IF c = "Variable" THEN [t EXCEPT !.pc = "read", !.cls = "IfNode"]
    ELSE IF c = "IfNode" THEN [t EXCEPT !.pc = "enter_urls", !.cls = None]
    ELSE [t EXCEPT !.pc = "done", !.cls = None, !.value = "True"]

\* if not settings.DEBUG: return False
CheckDebug_ignores_debug(t, g, DEBUG) ==
    [t |-> [t EXCEPT !.pc = "enter_vars"], g |-> g]

CheckDebug(t, g, DEBUG) ==
    IF ~DEBUG
    THEN [t |-> [t EXCEPT !.pc = "done", !.value = "False"], g |-> g]
    ELSE [t |-> [t EXCEPT !.pc = "enter_vars"], g |-> g]

\* if invalid_variables is True:
EnterVariables(t, g) ==
    IF IsTrue(t.invalid_variables)
    THEN [t |-> [t EXCEPT !.pc = "read", !.cls = "Variable"], g |-> g]
    ELSE [t |-> [t EXCEPT !.pc = "enter_urls"], g |-> g]

\* if invalid_urls is True:   ...   return True
EnterUrls_restores_when_off(t, g) ==
    IF IsTrue(t.invalid_urls)
    THEN [t |-> [t EXCEPT !.pc = "read", !.cls = "URLNode"], g |-> g]
    ELSE [t |-> [t EXCEPT !.pc = "done", !.value = "True"],
          g |-> [g EXCEPT !.hook["URLNode"] = "old",
                          !.shouty["URLNode"] = FALSE]]

EnterUrls(t, g) ==
    IF IsTrue(t.invalid_urls)
    THEN [t |-> [t EXCEPT !.pc = "read", !.cls = "URLNode"], g |-> g]
    ELSE [t |-> [t EXCEPT !.pc = "done", !.value = "True"], g |-> g]

\* patched_x = getattr(X, "_shouty", False); if patched_x is False:
ReadFlag_always_assigns(t, g) ==
    [t |-> [t EXCEPT !.pc = "assign", !.patched = g.shouty[t.cls]], g |-> g]

ReadFlag_marks_first(t, g) ==
    IF g.shouty[t.cls] = FALSE
    THEN [t |-> [t EXCEPT !.pc = "assign", !.patched = FALSE],
          g |-> [g EXCEPT !.shouty[t.cls] = TRUE]]
    ELSE [t |-> [AfterClass(t, t.cls) EXCEPT !.patched = TRUE], g |-> g]

ReadFlag(t, g) ==
    IF g.shouty[t.cls] = FALSE
    THEN [t |-> [t EXCEPT !.pc = "assign", !.patched = FALSE], g |-> g]
    ELSE [t |-> [AfterClass(t, t.cls) EXCEPT !.patched = TRUE], g |-> g]

\* X.hook = new_hook
AssignHook(t, g) ==
    [t |-> [t EXCEPT !.pc = "flag"],
     g |-> [g EXCEPT !.hook[t.cls] = "new",
                     !.installs[t.cls] = Min(@ + 1, MaxInstalls)]]

\* X._shouty = True
SetFlag(t, g) ==
    [t |-> AfterClass(t, t.cls), g |-> [g EXCEPT !.shouty[t.cls] = TRUE]]

\* one statement of a call of patch()
PatchStep(t, g, DEBUG) ==
    CASE t.pc = "debug" -> CheckDebug(t, g, DEBUG)
      [] t.pc = "enter_vars" -> EnterVariables(t, g)
      [] t.pc = "read" -> ReadFlag(t, g)
      [] t.pc = "assign" -> AssignHook(t, g)
      [] t.pc = "flag" -> SetFlag(t, g)
      [] t.pc = "enter_urls" -> EnterUrls(t, g)
      [] OTHER -> [t |-> t, g |-> g]

\* a whole call of patch(), run without interruption
RECURSIVE RunPatch(_, _, _)
RunPatch(t, g, DEBUG) ==
    IF t.pc = "done" THEN [t |-> t, g |-> g]
    ELSE LET r == PatchStep(t, g, DEBUG) IN RunPatch(r.t, r.g, DEBUG)

patch(g, DEBUG, invalid_variables, invalid_urls) ==
    RunPatch(NewCall(invalid_variables, invalid_urls), g, DEBUG)

\* the process-wide patch state of the current state
Globals == [hook |-> hook, shouty |-> shouty, installs |-> installs]

\* ------------------------------------------------------------------------
\* Templates, origins, nodes and contexts of the host engine
\* ------------------------------------------------------------------------
\* Template sources and the searched parts are sequences of characters.
\* An Origin compares equal to an Origin of the same template name, a
\* Template only to itself (id); an Origin never equals a Template.
NoObject == [kind |-> "None", id |-> 0, template_name |-> None, source |-> <<>>]

Origin(name) ==
    [kind |-> "Origin", id |-> 0, template_name |-> name, source |-> <<>>]

Template(id, name, source) ==
    [kind |-> "Template", id |-> id, template_name |-> name, source |-> source]

\* node.token.position[0], or NoPosition when the token has no position
NoPosition == -1

NoNode == [found |-> FALSE, origin |-> NoObject, position |-> NoPosition]

\* the walk up the call stack of new_resolve_lookup met no node and no frame
\* without locals: parent_frame.f_back of the outermost frame is None
NoFrame == [found |-> FALSE, origin |-> NoObject, position |-> NoPosition - 1]

Node(origin, position) ==
    [found |-> TRUE, origin |-> origin, position |-> position]

\* src.find(part): the offset of the first occurrence anywhere
TextFind_ignoring_start(src, part, start) ==
    LET n == Len(part)
        hits == {i \in 0..(Len(src) - n) : SubSeq(src, i + 1, i + n) = part}
    IN  IF hits = {} THEN -1
        ELSE CHOOSE i \in hits : \A j \in hits : i <= j

\* src.find(part, start): offset of the first occurrence at or after start,
\* -1 when there is none
TextFind(src, part, start) ==
    LET n == Len(part)
        hits == {i \in start..(Len(src) - n) : SubSeq(src, i + 1, i + n) = part}
    IN  IF hits = {} THEN -1
        ELSE CHOOSE i \in hits : \A j \in hits : i <= j

\* part in src
TextContains(src, part) == TextFind(src, part, 0) > -1

\* {} and the dict returned by Template.get_exception_info
NoExcInfo ==
    [empty |-> TRUE, name |-> None, start |-> 0, end |-> 0, during |-> <<>>]

ExcInfo(name, start, end, during) ==
    [empty |-> FALSE, name |-> name, start |-> start, end |-> end,
     during |-> during]

\* ------------------------------------------------------------------------
\* Source locator
\* ------------------------------------------------------------------------
\* for ctx in all_potential_contexts:
\*     if ctx not in contexts_to_search: contexts_to_search.append(ctx)
RECURSIVE Dedup(_, _)
Dedup(found, lst) ==
    IF lst = <<>> THEN found
    ELSE IF In(Head(lst), found) THEN Dedup(found, Tail(lst))
    ELSE Dedup(Append(found, Head(lst)), Tail(lst))

\* the isinstance(..., Template) values of a flattened context
TemplatesIn(flat) == SelectSeq(flat, LAMBDA v : v.kind = "Template")

ContextsToSearch_origin_after_extends(context, node) ==
    LET origin == IF node.found THEN node.origin ELSE NoObject
        render_context == context.render_context
    IN  Dedup(<<>>,
              render_context.extends_context
              \o (IF origin.kind # "None" THEN <<origin>> ELSE <<>>)
              \o (IF render_context.template.kind # "None"
                  THEN <<render_context.template>> ELSE <<>>)
              \o (IF context.template.kind # "None"
                  THEN <<context.template>> ELSE <<>>)
              \o TemplatesIn(render_context.flat)
              \o TemplatesIn(context.flat))

ContextsToSearch(context, node) ==
    LET origin == IF node.found THEN node.origin ELSE NoObject
        first == IF origin.kind # "None" THEN <<origin>> ELSE <<>>
        render_context == context.render_context
        all_potential_contexts ==
            first
            \o render_context.extends_context
            \o (IF render_context.template.kind # "None"
                THEN <<render_context.template>> ELSE <<>>)
            \o (IF context.template.kind # "None"
                THEN <<context.template>> ELSE <<>>)
            \o TemplatesIn(render_context.flat)
            \o TemplatesIn(context.flat)
    IN  Dedup(first, all_potential_contexts)

\* context.template.engine.find_template(name): the loadable template of
\* that name, or TemplateDoesNotExist
FindTemplate(context, name) ==
    IF \E tpl \in context.loadable : tpl.template_name = name
    THEN [found |-> TRUE,
          template |-> CHOOSE tpl \in context.loadable : tpl.template_name = name]
    ELSE [found |-> FALSE, template |-> NoObject]

\* the (_template, _origin) pair of one candidate; fault: the attribute
\* access context.template.engine on a context without a template
Candidate(context, parent) ==
    IF parent.kind = "Origin"
    THEN IF parent.template_name # None /\ parent.template_name # ""
         THEN IF context.template.kind = "None"
              THEN [fault |-> TRUE, template_name |-> None, source |-> <<>>]
              ELSE LET f == FindTemplate(context, parent.template_name)
                   IN  IF f.found
                       THEN [fault |-> FALSE,
                             template_name |-> f.template.template_name,
                             source |-> f.template.source]
                       ELSE [fault |-> FALSE,
                             template_name |-> parent.template_name,
                             source |-> <<>>]
         ELSE [fault |-> FALSE, template_name |-> parent.template_name,
               source |-> <<>>]
    ELSE [fault |-> FALSE, template_name |-> parent.template_name,
          source |-> parent.source]

LocatorFault ==
    [fault |-> TRUE, template_name |-> None, exc_info |-> NoExcInfo,
     all_template_names |-> <<>>]

\* the (_template, _origin) pairs of contexts_to_search, in order
Candidates(context, contexts_to_search) ==
    [i \in 1..Len(contexts_to_search) |->
        Candidate(context, contexts_to_search[i])]

NotFound_without_sentinel(template_names) ==
    [fault |-> FALSE, template_name |-> UNKNOWN_SOURCE,
     exc_info |-> NoExcInfo, all_template_names |-> template_names]

\* the fall-back after the loop: no candidate gave a match
NotFound(template_names) ==
    [fault |-> FALSE, template_name |-> UNKNOWN_SOURCE,
     exc_info |-> NoExcInfo,
     all_template_names |->
         IF In(UNKNOWN_SOURCE, template_names) THEN template_names
         ELSE Append(template_names, UNKNOWN_SOURCE)]

\* the loop over contexts_to_search
RECURSIVE SearchCandidates(_, _, _, _)
SearchCandidates(part, position, todo, template_names) ==
    IF Len(todo) = 0
    THEN NotFound(template_names)
    ELSE LET c == Head(todo)
             names == Append(template_names,
                             IF c.template_name = None THEN UNKNOWN_SOURCE
                             ELSE c.template_name)
             start == IF position # NoPosition
                      THEN TextFind(c.source, part, position) ELSE -1
         IN  IF c.fault THEN LocatorFault
             ELSE IF ~TextContains(c.source, part)
             THEN SearchCandidates(part, position, Tail(todo), names)
             ELSE IF position # NoPosition /\ start > -1
             THEN [fault |-> FALSE,
                   template_name |->
                       IF c.template_name = None \/ c.template_name = ""
                       THEN UNKNOWN_SOURCE ELSE c.template_name,
                   exc_info |->
                       \* during: self.source[start:end]
                       ExcInfo(c.template_name, start, start + Len(part),
                               SubSeq(c.source, start + 1, start + Len(part))),
                   all_template_names |-> names]
             ELSE SearchCandidates(part, position, Tail(todo), names)

create_exception_with_template_debug(context, part, node) ==
    SearchCandidates(part,
                     IF node.found THEN node.position ELSE NoPosition,
                     Candidates(context, ContextsToSearch(context, node)),
                     <<>>)

\* try: create_exception_with_template_debug(...) except Exception: the
\* (UNKNOWN_SOURCE, {}, [UNKNOWN_SOURCE]) fall-back of the three hooks
FallBackOnFault(located) ==
    IF located.fault
    THEN [fault |-> TRUE, template_name |-> UNKNOWN_SOURCE,
          exc_info |-> NoExcInfo,
          all_template_names |-> <<UNKNOWN_SOURCE>>]
    ELSE located

LocateOrFallBack(context, part, node) ==
    FallBackOnFault(create_exception_with_template_debug(context, part, node))

\* ------------------------------------------------------------------------
\* Host behaviour the hooks wrap (django.template, outside this repository)
\* ------------------------------------------------------------------------
\* Values bound in a context: the bools, a dict with string keys, a dict
\* with integer keys.  A dotted lookup "a.b" resolves "a" and then fails on
\* "b": none of the values of the model has a member b.
ScalarValues == {"True", "False"}
DictValues == {"dict_str_keys", "dict_int_keys"}

Truthy(value) == value \in {"True"} \cup DictValues

\* the first bit of a dotted path, and the second (None when there is none)
FirstBit(var) == IF var = "a.b" THEN "a" ELSE var
SecondBit(var) == IF var = "a.b" THEN "b" ELSE None

Returned(value) ==
    [kind |-> "return", value |-> value, bit |-> None, current |-> None,
     message |-> None, token |-> None, template_name |-> None, all_template_names |-> <<>>,
     template_debug |-> NoExcInfo, located |-> FALSE]

\* raise VariableDoesNotExist(..., (bit, current))
VariableDoesNotExist(bit, current) ==
    [Returned(None) EXCEPT !.kind = "VariableDoesNotExist", !.bit = bit,
                           !.current = current]

\* an exception of another type escaping the call
Escapes(type) == [Returned(None) EXCEPT !.kind = type, !.located = TRUE]

\* Variable._resolve_lookup of the host
old_resolve_lookup(var, context) ==
    IF FirstBit(var) \notin DOMAIN context.bindings
    THEN VariableDoesNotExist(FirstBit(var), "context")
    ELSE IF SecondBit(var) = None
    THEN Returned(context.bindings[FirstBit(var)])
    ELSE VariableDoesNotExist(SecondBit(var), context.bindings[FirstBit(var)])

\* ------------------------------------------------------------------------
\* Variable-resolution hook
\* ------------------------------------------------------------------------
\* the characters of the strings the locator searches for
Text(str) ==
    CASE str = "a" -> <<"a">>
      [] str = "b" -> <<"b">>
      [] str = "a.b" -> <<"a", ".", "b">>
      [] str = "subtitle" -> <<"s", "u", "b", "t", "i", "t", "l", "e">>
      [] str = "is_popup" -> <<"i", "s", "_", "p", "o", "p", "u", "p">>
      [] str = "if False and a" ->
            <<"i", "f", " ", "F", " ", "a", "n", "d", " ", "a">>
      [] str = "if False and a.b" ->
            <<"i", "f", " ", "F", " ", "a", "n", "d", " ", "a", ".", "b">>
      [] str = "if a" -> <<"i", "f", " ", "a">>
      [] str = "wheee" -> <<"w", "h", "e", "e", "e">>
      [] str = "if b or a" -> <<"i", "f", " ", "b", " ", "o", "r", " ", "a">>
      [] str = "if b" -> <<"i", "f", " ", "b">>
      [] OTHER -> <<str>>

\* possibilities = {x for x in possibilities if not x[0] == "_"} | ...
\* subscripts every key of the value being navigated: TypeError on a key
\* that is not a string
possibilities_fault(current) == current = "dict_int_keys"

\* MissingVariable(msg, token=..., template_name=..., all_template_names=...)
MissingVariable(msg, token, template_name, all_template_names, template_debug) ==
    [Returned(None) EXCEPT !.kind = "MissingVariable", !.message = msg,
                           !.token = token,
                           !.template_name = template_name,
                           !.all_template_names = all_template_names,
                           !.template_debug = template_debug,
                           !.located = TRUE]

\* the body of `if not_being_ignored or has_per_template_ignores:`, loc
\* the (template_name, exc_info, all_template_names) the locator gave
ShoutUnlessSilenced(e, whole_var, context, blacklist, loc) ==
    IF possibilities_fault(e.current) THEN Escapes("TypeError")
    \* context.template.engine.debug
    ELSE IF context.template.kind = "None" THEN Escapes("AttributeError")
    ELSE IF ~is_silenced(whole_var, loc.template_name, blacklist,
                         loc.all_template_names)
    THEN MissingVariable("does not resolve", whole_var, loc.template_name,
                         loc.all_template_names,
                         IF context.engine_debug THEN loc.exc_info
                         ELSE NoExcInfo)
    \* the except block ends: the function returns None
    ELSE [Returned(None) EXCEPT !.located = TRUE]

\* the except VariableDoesNotExist block, e the host's exception and
\* blacklist the value of variable_blacklist()
OnVariableDoesNotExist(e, whole_var, context, node, blacklist) ==
    LET ignored_templates_for_this_var == Get(blacklist, whole_var)
        ignored_templates_for_any_var == Get(blacklist, ANY_VARIABLE)
        not_being_ignored == whole_var \notin DOMAIN blacklist
        has_per_template_ignores ==
            Len(ignored_templates_for_this_var) > 0
                \/ Len(ignored_templates_for_any_var) > 0
    IN  IF not_being_ignored \/ has_per_template_ignores
        THEN ShoutUnlessSilenced(e, whole_var, context, blacklist,
                 LocateOrFallBack(context, Text(whole_var), node))
        \* raise e
        ELSE e

new_resolve_lookup(var, context, node, user_blacklist) ==
    LET host == old_resolve_lookup(var, context)
    IN  \* while parent_frame.f_locals: ... parent_frame = parent_frame.f_back
        IF node = NoFrame THEN Escapes("AttributeError")
        ELSE IF host.kind = "return" THEN host
        ELSE OnVariableDoesNotExist(host, var, context, node,
                                    variable_blacklist(user_blacklist))

\* Variable._resolve_lookup as currently installed
Variable_resolve_lookup(installed, var, context, node, user_blacklist) ==
    IF installed = "new"
    THEN new_resolve_lookup(var, context, node, user_blacklist)
    ELSE old_resolve_lookup(var, context)

\* ------------------------------------------------------------------------
\* Conditional hook
\* ------------------------------------------------------------------------
\* A condition is a tree: a leaf (TemplateLiteral: a variable, or a literal
\* when var is None) or an operator with operands first and second (second
\* is NoOperand for the prefix operator `not`).  The else branch of a chain
\* has NoOperand as its condition.
NoOperand == [op |-> "none"]

VarLeaf(id, var) == [op |-> "leaf", id |-> id, var |-> var, literal |-> None]
Literal(id, value) == [op |-> "leaf", id |-> id, var |-> None, literal |-> value]
Operator(op, first, second) == [op |-> op, first |-> first, second |-> second]

\* extract_first_second_from_branch: the leaves, first operand before second
RECURSIVE extract_first_second_from_branch(_)
extract_first_second_from_branch(cond) ==
    IF cond.op = "none" THEN <<>>
    ELSE IF cond.op = "leaf" THEN <<cond>>
    ELSE extract_first_second_from_branch(cond.first)
             \o extract_first_second_from_branch(cond.second)

\* the leaves of every condition of the chain, each once
RECURSIVE CollectConditions(_, _)
CollectConditions(conditions_nodelists, conditions) ==
    IF conditions_nodelists = <<>> THEN conditions
    ELSE CollectConditions(
             Tail(conditions_nodelists),
             Dedup(conditions,
                   extract_first_second_from_branch(
                       Head(conditions_nodelists).condition)))

\* FilterExpression.resolve of the host: Variable.resolve calls the
\* installed _resolve_lookup; VariableDoesNotExist is caught here and
\* becomes None (ignore_failures) or string_if_invalid
VariableDoesNotExistCaught(r, ignore_failures) ==
    IF r.kind = "VariableDoesNotExist"
    THEN Returned(IF ignore_failures THEN None ELSE "")
    ELSE r

FilterExpression_resolve(installed, leaf, context, node, user_blacklist, ignore_failures) ==
    IF leaf.var = None THEN Returned(leaf.literal)
    ELSE VariableDoesNotExistCaught(
             Variable_resolve_lookup(installed, leaf.var, context, node,
                                     user_blacklist),
             ignore_failures)

\* two statements in sequence: the second runs when the first returns, an
\* exception of the first propagates
Then(first, rest) == IF first.kind = "return" THEN rest ELSE first

\* for condition in conditions: condition.value.resolve(context)
RECURSIVE ForceLeaves(_, _, _, _, _)
ForceLeaves(installed, conditions, context, node, user_blacklist) ==
    IF conditions = <<>> THEN Returned(None)
    ELSE Then(FilterExpression_resolve(installed, Head(conditions), context,
                                       node, user_blacklist, FALSE),
              ForceLeaves(installed, Tail(conditions), context, node,
                          user_blacklist))

\* condition.eval(context) of the host (smartif): operators evaluate with
\* short-circuit and turn any exception of an operand into False; a leaf
\* resolves with ignore_failures=True.  The result is the value's truth, or
\* the exception that escapes.
Evaluated(r) ==
    [raised |-> r.kind # "return", exc |-> r,
     truth |-> r.kind = "return" /\ Truthy(r.value)]

RECURSIVE Eval(_, _, _, _, _)
Eval(installed, cond, context, node, user_blacklist) ==
    IF cond.op = "none"
    THEN [raised |-> FALSE, exc |-> Returned(None), truth |-> TRUE]
    ELSE IF cond.op = "leaf"
    THEN Evaluated(FilterExpression_resolve(installed, cond, context, node,
                                            user_blacklist, TRUE))
    ELSE LET first == Eval(installed, cond.first, context, node, user_blacklist)
             second == Eval(installed, cond.second, context, node, user_blacklist)
             value ==
                CASE cond.op = "not" -> ~first.raised /\ ~first.truth
                  [] cond.op = "and" ->
                        /\ ~first.raised
                        /\ first.truth
                        /\ ~second.raised
                        /\ second.truth
                  [] cond.op = "or" ->
                        /\ ~first.raised
                        /\ (first.truth \/ (~second.raised /\ second.truth))
         IN  [raised |-> FALSE, exc |-> Returned(None), truth |-> value]

\* IfNode.render of the host: the nodelist of the first branch whose
\* condition holds (0: no branch, the empty string)
\* one turn of the loop over conditions_nodelists: match is the value of
\* the branch's condition (True for the else branch)
RenderBranch(match, nodelist, rest) ==
    IF match.raised THEN match.exc
    ELSE IF match.truth THEN Returned(nodelist)
    ELSE rest

RECURSIVE old_if_render(_, _, _, _, _)
old_if_render(installed, conditions_nodelists, context, node, user_blacklist) ==
    IF conditions_nodelists = <<>> THEN Returned(0)
    ELSE RenderBranch(
             Eval(installed, Head(conditions_nodelists).condition, context,
                  node, user_blacklist),
             Head(conditions_nodelists).nodelist,
             old_if_render(installed, Tail(conditions_nodelists), context,
                           node, user_blacklist))

\* the chain has an elif and no else
ExhaustivenessGap(conditions_nodelists) ==
    /\ Len(conditions_nodelists) > 1
    /\ conditions_nodelists[Len(conditions_nodelists)].condition.op # "none"

\* the body of `if not_being_ignored or has_per_template_ignores:` of the
\* exhaustiveness block, loc what the locator gave
ShoutUnlessElseSilenced(whole_var, context, blacklist, loc) ==
    \* context.template.engine.debug
    IF context.template.kind = "None" THEN Escapes("AttributeError")
    ELSE IF context.engine_debug
              /\ ~is_silenced(whole_var, loc.template_name, blacklist,
                              loc.all_template_names)
    THEN MissingVariable("No else statement found", whole_var,
                         loc.template_name, loc.all_template_names,
                         loc.exc_info)
    ELSE Returned(None)

\* the exhaustiveness block: the exception it raises, or Returned(None) when
\* it raises nothing; blacklist is the value of if_else_blacklist()
CheckExhaustiveness(ifnode, context, blacklist) ==
    LET whole_var == ifnode.contents
        ignored_templates_for_this_var == Get(blacklist, whole_var)
        ignored_templates_for_any_var == Get(blacklist, ANY_VARIABLE)
        not_being_ignored == whole_var \notin DOMAIN blacklist
        has_per_template_ignores ==
            Len(ignored_templates_for_this_var) > 0
                \/ Len(ignored_templates_for_any_var) > 0
    IN  IF ~ExhaustivenessGap(ifnode.conditions_nodelists) THEN Returned(None)
        ELSE IF ~(not_being_ignored \/ has_per_template_ignores)
        THEN Returned(None)
        ELSE ShoutUnlessElseSilenced(whole_var, context, blacklist,
                 LocateOrFallBack(context, Text(whole_var), ifnode.node))

new_if_render(installed, ifnode, context, user_blacklist) ==
    Then(CheckExhaustiveness(ifnode, context,
                             if_else_blacklist(user_blacklist)),
         Then(ForceLeaves(installed,
                          CollectConditions(ifnode.conditions_nodelists, <<>>),
                          context, ifnode.node, user_blacklist),
              old_if_render(installed, ifnode.conditions_nodelists, context,
                            ifnode.node, user_blacklist)))

\* IfNode.render as currently installed
IfNode_render(installed_if, installed_var, ifnode, context, user_blacklist) ==
    IF installed_if = "new"
    THEN new_if_render(installed_var, ifnode, context, user_blacklist)
    ELSE old_if_render(installed_var, ifnode.conditions_nodelists, context,
                       ifnode.node, user_blacklist)

\* ------------------------------------------------------------------------
\* Named-output-binding (URL) hook
\* ------------------------------------------------------------------------
URL_BLACKLIST ==
    <<<<"admin_password_reset", "password_reset_url">>,
      <<"django-admindocs-docroot", "docsroot">>>>

\* URL_BLACKLIST + tuple(getattr(settings, "SHOUTY_URL_BLACKLIST", ()))
url_blacklist(user_url_blacklist) == URL_BLACKLIST \o user_url_blacklist

\* the view names reverse() resolves, and the URL it gives
UrlConf == {"home"}
Reversed(view_name) == "/home/"

\* context[key] = value
Bind(context, key, value) ==
    [context EXCEPT !.bindings =
        [k \in DOMAIN context.bindings \cup {key} |->
            IF k = key THEN value ELSE context.bindings[k]]]

\* URLNode.render of the host: a view that does not reverse raises
\* NoReverseMatch when there is no asvar and binds "" to it otherwise; with
\* an asvar the URL is bound in the context and "" is rendered.  The value
\* or exception, and the context after the call.
old_url_render(self, context) ==
    IF self.asvar = None
    THEN [outcome |-> IF self.view_name \in UrlConf
                      THEN Returned(Reversed(self.view_name))
                      ELSE Escapes("NoReverseMatch"),
          context |-> context]
    ELSE [outcome |-> Returned(""),
          context |-> Bind(context, self.asvar,
                           IF self.view_name \in UrlConf
                           THEN Reversed(self.view_name) ELSE "")]

\* the body of `if key not in url_blacklist():`, loc what the locator gave
ShoutUrl(key, context, loc) ==
    \* context.template.engine.debug
    IF context.template.kind = "None" THEN Escapes("AttributeError")
    ELSE MissingVariable("did not resolve", key, loc.template_name,
                         loc.all_template_names,
                         IF context.engine_debug THEN loc.exc_info
                         ELSE NoExcInfo)

\* new_url_render after value = old_url_render(self, context), host the
\* outcome and the context of that call
AfterUrlRender(self, host, user_url_blacklist) ==
    LET outvar == self.asvar
        key == <<self.view_name, outvar>>
    IN  IF host.outcome.kind # "return" THEN host.outcome
        ELSE IF outvar # None /\ host.context.bindings[outvar] = ""
        THEN IF ~In(key, url_blacklist(user_url_blacklist))
             THEN ShoutUrl(key, host.context,
                           LocateOrFallBack(host.context, Text(outvar),
                                            self.node))
             ELSE host.outcome
        ELSE host.outcome

new_url_render(self, context, user_url_blacklist) ==
    AfterUrlRender(self, old_url_render(self, context), user_url_blacklist)

\* URLNode.render as currently installed
URLNode_render(installed, self, context, user_url_blacklist) ==
    IF installed = "new"
    THEN new_url_render(self, context, user_url_blacklist)
    ELSE old_url_render(self, context).outcome

\* ------------------------------------------------------------------------
\* Values the variables hold while a specification does not use them
\* ------------------------------------------------------------------------
NoCall == [op |-> "none"]

NoFailure ==
    [whole_var |-> "a", template_name |-> UNKNOWN_SOURCE,
     all_template_names |-> <<>>]

NumThreads == 2
Threads == 1..NumThreads

DefaultSettings ==
    [DEBUG |-> TRUE, SHOUTY_VARIABLE_BLACKLIST |-> DefaultUserBlacklist,
     SHOUTY_URL_BLACKLIST |-> <<>>]

\* ========================================================================
\* Specification of the program: the settings change, patch() and
\* Shout.ready() run, variables resolve and conditionals render through
\* whatever is installed
\* ========================================================================
MaxUserScope == 1    \* longest template list of a key of the user mapping

UserKeys == {"a", ANY_VARIABLE}
UserScopes == {ANY_TEMPLATE, "child.html", UNKNOWN_SOURCE}
UserFlatVars == {"a", "subtitle"}

UserBlacklists ==
    {DictConfig(d) :
        d \in UNION {[K -> SeqsUpTo(UserScopes, MaxUserScope)] :
                        K \in SUBSET UserKeys}}
    \cup {ListConfig(l) : l \in SeqsUpTo(UserFlatVars, MaxFlat)}

LookupVars == {"a", "a.b", "subtitle", "is_popup"}

\* the context bindings of a render
Bindings ==
    {f \in UNION {[K -> ScalarValues \cup {"dict_int_keys"}] :
                     K \in SUBSET {"a", "b"}} :
        "b" \in DOMAIN f => f["b"] \in ScalarValues}

\* Where the failing expression lives and what the engine recorded:
\*   standalone   a template made from a string (its origin has no name)
\*   named        a loaded template, "child.html"
\*   extends      "admin/base_site.html" extends "admin/base.html", the
\*                expression is in the parent
\*   named_nodebug  the same, rendered by an engine whose debug is off
\*   no_node      the resolving node is not on the call stack, and the walk
\*                up the stack ends at a frame without locals
\*   no_frame     (lookups only) the resolving node is not on the call
\*                stack and every frame has locals
\*   no_position  the token carries no position (non-debug lexer)
\*   no_template  the context is not bound to a template
Arrangements ==
    {"standalone", "named", "named_nodebug", "extends", "no_node",
     "no_position", "no_template"}

\* the source of the template holding the part, which starts at offset 2
SourceWith(part) == <<"{", "{">> \o part \o <<"}", "}">>

SceneContext(arrangement, part, bindings) ==
    LET standalone == Template(1, None, SourceWith(part))
        child == Template(2, "child.html", SourceWith(part))
        base_site == Template(3, "admin/base_site.html", <<"{", "%", "%", "}">>)
        base == Template(4, "admin/base.html", SourceWith(part))
        bound == CASE arrangement = "standalone" -> standalone
                   [] arrangement = "extends" -> base_site
                   [] arrangement = "no_template" -> NoObject
                   [] OTHER -> child
    IN  [template |-> bound,
         engine_debug |-> arrangement # "named_nodebug",
         render_context |->
            [extends_context |->
                IF arrangement = "extends"
                THEN <<Origin("admin/base_site.html"), Origin("admin/base.html")>>
                ELSE <<>>,
             template |-> bound,
             flat |-> <<>>],
         flat |-> <<>>,
         loadable |-> {child, base_site, base},
         bindings |-> bindings]

SceneNode(arrangement) ==
    CASE arrangement = "standalone" -> Node(Origin(None), 0)
      [] arrangement = "extends" -> Node(Origin("admin/base.html"), 0)
      [] arrangement = "no_node" -> NoNode
      [] arrangement = "no_frame" -> NoFrame
      [] arrangement = "no_position" -> Node(Origin("child.html"), NoPosition)
      [] OTHER -> Node(Origin("child.html"), 0)

\* the conditionals of the model; nodelist k is the k-th branch
IfNodes ==
    {[contents |-> "if False and a",
      conditions_nodelists |->
        <<[condition |-> Operator("and", Literal(1, "False"), VarLeaf(2, "a")),
           nodelist |-> 1]>>],
     [contents |-> "if False and a.b",
      conditions_nodelists |->
        <<[condition |-> Operator("and", Literal(1, "False"), VarLeaf(2, "a.b")),
           nodelist |-> 1]>>],
     [contents |-> "if a",
      conditions_nodelists |->
        <<[condition |-> VarLeaf(1, "a"), nodelist |-> 1]>>],
     [contents |-> "if b or a",
      conditions_nodelists |->
        <<[condition |-> Operator("or", VarLeaf(1, "b"), VarLeaf(2, "a")),
           nodelist |-> 1]>>],
     \* {% if b %}..{% elif a %}..{% else %}..{% endif %}
     [contents |-> "if b",
      conditions_nodelists |->
        <<[condition |-> VarLeaf(1, "b"), nodelist |-> 1],
          [condition |-> VarLeaf(2, "a"), nodelist |-> 2],
          [condition |-> NoOperand, nodelist |-> 3]>>],
     \* {% if b %}..{% elif a %}..{% endif %}
     [contents |-> "if b",
      conditions_nodelists |->
        <<[condition |-> VarLeaf(1, "b"), nodelist |-> 1],
          [condition |-> VarLeaf(2, "a"), nodelist |-> 2]>>]}

IfArrangements == {"standalone", "named", "named_nodebug", "no_template"}

\* the bindings a lookup of the model depends on
LookupBindings == {f \in Bindings : DOMAIN f \subseteq {"a"}}

Init ==
    /\ settings = DefaultSettings
    /\ hook = Unpatched.hook
    /\ shouty = Unpatched.shouty
    /\ installs = Unpatched.installs
    /\ last = NoCall
    /\ rules = EmptyDict
    /\ failure = NoFailure
    /\ threads = [i \in Threads |-> IdleCall]

\* override_settings(DEBUG=..., SHOUTY_VARIABLE_BLACKLIST=...)
OverrideSettings(DEBUG, user_blacklist) ==
    /\ last = NoCall
    /\ settings' = [settings EXCEPT !.DEBUG = DEBUG,
                                    !.SHOUTY_VARIABLE_BLACKLIST = user_blacklist]
    /\ UNCHANGED <<last, hook, shouty, installs, rules, failure, threads>>

PatchCall(op, invalid_variables, invalid_urls) ==
    LET r == patch(Globals, settings.DEBUG, invalid_variables, invalid_urls)
    IN  /\ last = NoCall
        /\ hook' = r.g.hook
        /\ shouty' = r.g.shouty
        /\ installs' = r.g.installs
        /\ last' = [op |-> op, invalid_variables |-> invalid_variables,
                    invalid_urls |-> invalid_urls, DEBUG |-> settings.DEBUG,
                    before |-> Globals, value |-> r.t.value]
        /\ UNCHANGED <<settings, rules, failure, threads>>

Patch(invalid_variables, invalid_urls) ==
    PatchCall("patch", invalid_variables, invalid_urls)

\* Shout.ready(): patch(getattr(settings, "SHOUTY_VARIABLES", True),
\*                      getattr(settings, "SHOUTY_URLS", True))
\* an argument of None stands for a setting that is absent
Ready(SHOUTY_VARIABLES, SHOUTY_URLS) ==
    PatchCall("ready",
              IF SHOUTY_VARIABLES = None THEN "True" ELSE SHOUTY_VARIABLES,
              IF SHOUTY_URLS = None THEN "True" ELSE SHOUTY_URLS)

\* Variable.resolve(context) of the host: self._resolve_lookup(context)
ResolveLookup(var, arrangement, bindings) ==
    LET context == SceneContext(arrangement, Text(var), bindings)
        node == SceneNode(arrangement)
        user_blacklist == settings.SHOUTY_VARIABLE_BLACKLIST
    IN  /\ last = NoCall
        /\ last' = [op |-> "resolve_lookup",
                    var |-> var,
                    arrangement |-> arrangement,
                    installed |-> hook["Variable"],
                    host |-> old_resolve_lookup(var, context),
                    located |-> LocateOrFallBack(context, Text(var), node),
                    outcome |-> Variable_resolve_lookup(hook["Variable"], var,
                                    context, node, user_blacklist)]
        /\ UNCHANGED <<settings, hook, shouty, installs, rules, failure, threads>>

\* IfNode.render(context) of the host
IfRender(ifnode, arrangement, bindings) ==
    LET context == SceneContext(arrangement, Text(ifnode.contents), bindings)
        self == [contents |-> ifnode.contents,
                 conditions_nodelists |-> ifnode.conditions_nodelists,
                 node |-> SceneNode(arrangement)]
        user_blacklist == settings.SHOUTY_VARIABLE_BLACKLIST
    IN  /\ last = NoCall
        /\ last' = [op |-> "if_render",
                    ifnode |-> ifnode,
                    arrangement |-> arrangement,
                    context |-> context,
                    installed |-> hook["IfNode"],
                    installed_var |-> hook["Variable"],
                    located |-> LocateOrFallBack(context, Text(ifnode.contents),
                                                 self.node),
                    outcome |-> IfNode_render(hook["IfNode"], hook["Variable"],
                                              self, context, user_blacklist)]
        /\ UNCHANGED <<settings, hook, shouty, installs, rules, failure, threads>>

\* the call in progress hands its value or exception to its caller
CallReturns ==
    /\ last # NoCall
    /\ last' = NoCall
    /\ UNCHANGED <<settings, hook, shouty, installs, rules, failure, threads>>

Next ==
    \/ \E DEBUG \in BOOLEAN, user_blacklist \in UserBlacklists :
          OverrideSettings(DEBUG, user_blacklist)
    \/ \E invalid_variables \in FlagValues, invalid_urls \in FlagValues :
          Patch(invalid_variables, invalid_urls)
    \/ \E SHOUTY_VARIABLES \in FlagValues \cup {None},
          SHOUTY_URLS \in FlagValues \cup {None} :
          Ready(SHOUTY_VARIABLES, SHOUTY_URLS)
    \/ \E var \in LookupVars, arrangement \in Arrangements \cup {"no_frame"},
          bindings \in LookupBindings :
          ResolveLookup(var, arrangement, bindings)
    \/ \E ifnode \in IfNodes, arrangement \in IfArrangements,
          bindings \in Bindings :
          IfRender(ifnode, arrangement, bindings)
    \/ CallReturns

Spec == Init /\ [][Next]_vars

\* ========================================================================
\* Specification of the suppression policy alone: a rule mapping, a failure
\* (whole expression, resolved template name, candidate names), the mapping
\* growing by (variable, template) entries, is_silenced applied to them
\* ========================================================================
PolicyKeys == {"a", ANY_VARIABLE}
PolicyScopes == {ANY_TEMPLATE, "t.html", "base.html"}
PolicyVars == {"a", "b"}
PolicyNames == {"t.html", "base.html", UNKNOWN_SOURCE}

RuleMappings ==
    UNION {[K -> SeqsUpTo(PolicyScopes, MaxScope)] : K \in SUBSET PolicyKeys}

Failures ==
    [whole_var : PolicyVars, template_name : PolicyNames,
     all_template_names : SeqsUpTo(PolicyNames, MaxCandidates)]

InitPolicy ==
    /\ rules \in RuleMappings
    /\ failure \in Failures
    /\ last = NoCall
    /\ settings = DefaultSettings
    /\ hook = Unpatched.hook
    /\ shouty = Unpatched.shouty
    /\ installs = Unpatched.installs
    /\ threads = [i \in Threads |-> IdleCall]

\* one more (variable, template) entry in the mapping
ExtendRules(var, template) ==
    /\ Len(Get(rules, var)) < MaxScope
    /\ rules' = SetDefaultExtend(rules, var, <<template>>)
    /\ last' = [op |-> "extend_rules",
                silenced_before |->
                    is_silenced(failure.whole_var, failure.template_name,
                                rules, failure.all_template_names)]
    /\ UNCHANGED <<failure, settings, hook, shouty, installs, threads>>

IsSilencedCall ==
    /\ last' = [op |-> "is_silenced",
                whole_var |-> failure.whole_var,
                template_name |-> failure.template_name,
                blacklist |-> rules,
                all_template_names |-> failure.all_template_names,
                value |-> is_silenced(failure.whole_var, failure.template_name,
                                      rules, failure.all_template_names)]
    /\ UNCHANGED <<rules, failure, settings, hook, shouty, installs, threads>>

NextPolicy ==
    \/ \E var \in PolicyKeys, template \in PolicyScopes :
          ExtendRules(var, template)
    \/ IsSilencedCall

SpecPolicy == InitPolicy /\ [][NextPolicy]_vars

\* ========================================================================
\* Specification of concurrent first use: NumThreads calls of patch() with
\* the same arguments, interleaved statement by statement
\* ========================================================================
InitConcurrent ==
    /\ \E d \in BOOLEAN : settings = [DefaultSettings EXCEPT !.DEBUG = d]
    /\ \E iv \in FlagValues, iu \in FlagValues :
          threads = [i \in Threads |-> NewCall(iv, iu)]
    /\ hook = Unpatched.hook
    /\ shouty = Unpatched.shouty
    /\ installs = Unpatched.installs
    /\ last = NoCall
    /\ rules = EmptyDict
    /\ failure = NoFailure

ThreadStep(i) ==
    /\ threads[i].pc \notin {"idle", "done"}
    /\ LET r == PatchStep(threads[i], Globals, settings.DEBUG)
       IN  /\ threads' = [threads EXCEPT ![i] = r.t]
           /\ hook' = r.g.hook
           /\ shouty' = r.g.shouty
           /\ installs' = r.g.installs
    /\ UNCHANGED <<settings, last, rules, failure>>

NextConcurrent == \E i \in Threads : ThreadStep(i)

SpecConcurrent == InitConcurrent /\ [][NextConcurrent]_vars

\* ========================================================================
\* Specification of the URL tag: SHOUTY_URL_BLACKLIST changes, patch() and
\* Shout.ready() run, {% url view %} and {% url view as asvar %} render
\* through whatever is installed
\* ========================================================================
MaxUrlRules == 1    \* longest SHOUTY_URL_BLACKLIST

UrlViews == {"home", "waffle", "admin_password_reset"}
UrlAsvars == {None, "wheee", "password_reset_url"}
UserUrlKeys == {<<"waffle", "wheee">>, <<"home", "wheee">>}
UserUrlBlacklists == SeqsUpTo(UserUrlKeys, MaxUrlRules)

\* override_settings(DEBUG=..., SHOUTY_URL_BLACKLIST=...)
OverrideUrlSettings(DEBUG, user_url_blacklist) ==
    /\ last = NoCall
    /\ settings' = [settings EXCEPT !.DEBUG = DEBUG,
                                    !.SHOUTY_URL_BLACKLIST = user_url_blacklist]
    /\ UNCHANGED <<last, hook, shouty, installs, rules, failure, threads>>

\* URLNode.render(context) of the host
UrlRender(view_name, asvar, arrangement) ==
    LET part == Text(IF asvar = None THEN view_name ELSE asvar)
        context == SceneContext(arrangement, part, EmptyDict)
        self == [view_name |-> view_name, asvar |-> asvar,
                 node |-> SceneNode(arrangement)]
    IN  /\ last = NoCall
        /\ last' = [op |-> "url_render",
                    view_name |-> view_name,
                    asvar |-> asvar,
                    arrangement |-> arrangement,
                    installed |-> hook["URLNode"],
                    host |-> old_url_render(self, context),
                    located |-> LocateOrFallBack(context, part, self.node),
                    outcome |-> URLNode_render(hook["URLNode"], self, context,
                                               settings.SHOUTY_URL_BLACKLIST)]
        /\ UNCHANGED <<settings, hook, shouty, installs, rules, failure, threads>>

NextUrl ==
    \/ \E DEBUG \in BOOLEAN, user_url_blacklist \in UserUrlBlacklists :
          OverrideUrlSettings(DEBUG, user_url_blacklist)
    \/ \E invalid_variables \in FlagValues, invalid_urls \in FlagValues :
          Patch(invalid_variables, invalid_urls)
    \/ \E SHOUTY_VARIABLES \in FlagValues \cup {None},
          SHOUTY_URLS \in FlagValues \cup {None} :
          Ready(SHOUTY_VARIABLES, SHOUTY_URLS)
    \/ \E view_name \in UrlViews, asvar \in UrlAsvars,
          arrangement \in Arrangements :
          UrlRender(view_name, asvar, arrangement)
    \/ CallReturns

SpecUrl == Init /\ [][NextUrl]_vars

\* ========================================================================
\* Specification of the source locator alone:
\* create_exception_with_template_debug applied to the contexts and nodes
\* of a render that extends, includes and passes templates by value
\* ========================================================================
MaxChain == 2    \* longest extends_context

\* the failing substring
LocPart == <<"a">>

\* a template made from a string: {{a}}
Standalone == Template(1, None, <<"{", "{", "a", "}", "}">>)
\* child.html: {#a#}{{a}}
Child ==
    Template(2, "child.html",
             <<"{", "#", "a", "#", "}", "{", "{", "a", "}", "}">>)
\* base.html: {{a}}
Base == Template(3, "base.html", <<"{", "{", "a", "}", "}">>)
\* site.html: {%%}
Site == Template(4, "site.html", <<"{", "%", "%", "}">>)

\* origins an extends chain records; missing.html is not loadable
ChainOrigins ==
    {Origin("child.html"), Origin("base.html"), Origin("site.html"),
     Origin("missing.html")}

\* the nodes resolving {{a}}: none, or the variable node of a template at
\* the offset of its {{a}}, with or without a token position
LocNodes ==
    {NoNode,
     Node(Origin(None), 0), Node(Origin(None), NoPosition),
     Node(Origin("child.html"), 5), Node(Origin("child.html"), NoPosition),
     Node(Origin("base.html"), 0),
     \* a node of a template whose origin has the empty name
     Node(Origin(""), 0)}

LocContexts ==
    {[template |-> t,
      engine_debug |-> TRUE,
      render_context |-> [extends_context |-> e, template |-> rt,
                          flat |-> <<>>],
      flat |-> f,
      loadable |-> {Child, Base, Site},
      bindings |-> EmptyDict] :
        t \in {NoObject, Standalone, Child},
        rt \in {NoObject, Standalone, Child},
        e \in SeqsUpTo(ChainOrigins, MaxChain),
        \* passed by value: nothing, a string template, base.html, a
        \* template {{a}} whose origin has the empty name
        f \in {<<>>, <<Standalone>>, <<Base>>,
               <<Template(5, "", <<"{", "{", "a", "}", "}">>)>>}}

Locate(context, node) ==
    /\ last = NoCall
    /\ last' = [op |-> "locate",
                context |-> context,
                part |-> LocPart,
                node |-> node,
                value |-> create_exception_with_template_debug(
                              context, LocPart, node)]
    /\ UNCHANGED <<settings, hook, shouty, installs, rules, failure, threads>>

NextLocator ==
    \/ \E context \in LocContexts, node \in LocNodes : Locate(context, node)
    \/ CallReturns

SpecLocator == Init /\ [][NextLocator]_vars

\* ========================================================================
\* Specification of the system check: SHOUTY_VARIABLE_BLACKLIST is
\* overridden with a value of any type and check_user_blacklists runs
\* ========================================================================
MaxElements == 3     \* longest flat iterable handed to the check
MaxDictItems == 1    \* most items of a mapping handed to the check

\* Python values as the check sees them: the type, the text str() gives,
\* the elements of a tuple, the (key, value) items of a dict
PyStr(text) == [type |-> "str", text |-> text, elements |-> <<>>, items |-> <<>>]
PyBytes(text) == [type |-> "bytes", text |-> text, elements |-> <<>>, items |-> <<>>]
PyInt(text) == [type |-> "int", text |-> text, elements |-> <<>>, items |-> <<>>]
PyNone == [type |-> "NoneType", text |-> "None", elements |-> <<>>, items |-> <<>>]
PyTuple(elements) == [type |-> "tuple", text |-> "(...)", elements |-> elements, items |-> <<>>]
PyDict(items) == [type |-> "dict", text |-> "{...}", elements |-> <<>>, items |-> items]

\* the characters of a text
Chars(text) ==
    CASE text = "" -> <<>>
      [] text = "ab" -> <<"a", "b">>
      [] OTHER -> <<text>>

\* hasattr(value, "items") and callable(value.items)
HasItems(value) == value.type = "dict"

\* only a str passes iter()
Iterable_str_only(value) == value.type = "str"

\* iter(value) does not raise TypeError
Iterable(value) == value.type \in {"str", "bytes", "tuple", "dict"}

\* [x for x in value]: a str yields its characters, bytes its code points
Iterate(value) ==
    CASE value.type = "str" ->
            [i \in 1..Len(Chars(value.text)) |-> PyStr(Chars(value.text)[i])]
      [] value.type = "bytes" ->
            [i \in 1..Len(Chars(value.text)) |->
                PyInt(IF Chars(value.text)[i] = "a" THEN "97" ELSE "98")]
      [] value.type = "tuple" -> value.elements
      [] OTHER -> <<>>

\* len(value) does not raise
Sized(value) == value.type \in {"str", "bytes", "tuple", "dict"}

\* django.utils.encoding.force_text with every value taken for its own text
force_text_unconverted(s) == s

\* django.utils.encoding.force_text(s): s itself when it is a str, the
\* decoded text of bytes, str(s) otherwise
force_text(s) == IF s.type = "str" THEN s ELSE PyStr(s.text)

\* checks.Error(msg.format(arg), hint=hint, obj="settings.SHOUTY_VARIABLE_BLACKLIST")
Error(msg, arg, hint) == [msg |-> msg, arg |-> arg, hint |-> hint]

\* the argument of format(): the type and the text of the value
Repr(value) == <<value.type, value.text>>

\* the errors of one (var, templates) item of a mapping
ItemErrors(var, templates) ==
    (IF force_text(var) # var
     THEN <<Error("Expected key {!r} to be a string", Repr(var), None)>>
     ELSE <<>>)
    \o (IF force_text(templates) = templates
        THEN <<Error("Key {} has it's list of templates as a string", Repr(var),
                     "Templates should be like: ('template.html', 'template2.html')")>>
        ELSE <<>>)
    \o (IF ~Sized(templates)
        THEN <<Error("Key {} has an unexpected templates defintion", Repr(var),
                     "The value for templates should be like: ('template.html', 'template2.html')")>>
        ELSE IF var = PyStr(ANY_VARIABLE) /\ Len(Iterate(templates)) < 1
        THEN <<Error("Magic variable * has an unexpected templates defintion", <<>>,
                     "Using * requires you to specify a specific template (or set of templates) to ignore")>>
        ELSE IF var = PyStr(ANY_VARIABLE) /\ In(PyStr(ANY_TEMPLATE), Iterate(templates))
        THEN <<Error("Magic variable * has an unexpected templates defintion", <<>>,
                     "Using * for both the variable and template isn't supported, use settings.SHOUTY_VARIABLES = False")>>
        ELSE IF Len(Iterate(templates)) < 1
        THEN <<Error("Key {} has an unexpected templates defintion", Repr(var),
                     "There are no templates whitelisted, nor the magic '*' value")>>
        ELSE <<>>)

\* for var, templates in user_blacklist.items(): ...
RECURSIVE DictErrors(_)
DictErrors(items) ==
    IF items = <<>> THEN <<>>
    ELSE ItemErrors(Head(items)[1], Head(items)[2]) \o DictErrors(Tail(items))

\* for var in user_blacklist: if force_text(var) != var: errors.append(...)
RECURSIVE ElementErrors(_)
ElementErrors(elements) ==
    IF elements = <<>> THEN <<>>
    ELSE (IF force_text(Head(elements)) # Head(elements)
          THEN <<Error("Expected {!r} to be a string", Repr(Head(elements)), None)>>
          ELSE <<>>)
         \o ElementErrors(Tail(elements))

\* every setting taken for a flat iterable
check_user_blacklists_flat_only(user_blacklist) ==
    (IF force_text(user_blacklist) = user_blacklist
     THEN <<Error("Setting appears to be a string", <<>>,
                  "Should be a sequence or dictionary (eg: ['myvar', 'myvar2'])")>>
     ELSE <<>>)
    \o (IF ~Iterable(user_blacklist)
        THEN <<Error("Setting doesn't appear to be a sequence", <<>>,
                     "Should be a sequence or dictionary (eg: ['myvar', 'myvar2'])")>>
        ELSE ElementErrors(Iterate(user_blacklist)))

check_user_blacklists(user_blacklist) ==
    IF HasItems(user_blacklist)
    THEN DictErrors(user_blacklist.items)
    ELSE (IF force_text(user_blacklist) = user_blacklist
          THEN <<Error("Setting appears to be a string", <<>>,
                       "Should be a sequence or dictionary (eg: ['myvar', 'myvar2'])")>>
          ELSE <<>>)
         \o (IF ~Iterable(user_blacklist)
             THEN <<Error("Setting doesn't appear to be a sequence", <<>>,
                          "Should be a sequence or dictionary (eg: ['myvar', 'myvar2'])")>>
             ELSE ElementErrors(Iterate(user_blacklist)))

\* the values the setting is overridden with
CheckedElements == {PyStr("a"), PyStr(ANY_VARIABLE), PyBytes("a"), PyInt("1"), PyNone}

CheckedSettings ==
    LET keys == {PyStr("a"), PyStr(ANY_VARIABLE), PyInt("1")}
        templates ==
            {PyStr("a"), PyInt("1"), PyTuple(<<>>), PyTuple(<<PyStr("a")>>),
             PyTuple(<<PyStr("a"), PyStr(ANY_TEMPLATE)>>),
             PyTuple(<<PyStr(UNKNOWN_SOURCE)>>), PyTuple(<<PyInt("1")>>)}
    IN  {PyStr(""), PyStr("a"), PyStr("ab"), PyBytes("ab"), PyInt("1"), PyNone}
        \cup {PyTuple(l) : l \in SeqsUpTo(CheckedElements, MaxElements)}
        \cup {PyDict(items) :
                items \in {s \in SeqsUpTo(keys \X templates, MaxDictItems) :
                             \A i, j \in DOMAIN s : s[i][1] = s[j][1] => i = j}}

\* getattr(settings, "SHOUTY_VARIABLE_BLACKLIST", ()) of unchanged settings
InitChecks ==
    /\ settings = [DefaultSettings EXCEPT !.SHOUTY_VARIABLE_BLACKLIST = PyTuple(<<>>)]
    /\ hook = Unpatched.hook
    /\ shouty = Unpatched.shouty
    /\ installs = Unpatched.installs
    /\ last = NoCall
    /\ rules = EmptyDict
    /\ failure = NoFailure
    /\ threads = [i \in Threads |-> IdleCall]

\* override_settings(SHOUTY_VARIABLE_BLACKLIST=value)
OverrideCheckedSetting(value) ==
    /\ last = NoCall
    /\ settings' = [settings EXCEPT !.SHOUTY_VARIABLE_BLACKLIST = value]
    /\ UNCHANGED <<hook, shouty, installs, last, rules, failure, threads>>

\* check_user_blacklists(None), as the checks framework calls it
RunCheck ==
    /\ last = NoCall
    /\ last' = [op |-> "check_user_blacklists",
                user_blacklist |-> settings.SHOUTY_VARIABLE_BLACKLIST,
                errors |-> check_user_blacklists(settings.SHOUTY_VARIABLE_BLACKLIST)]
    /\ UNCHANGED <<settings, hook, shouty, installs, rules, failure, threads>>

NextChecks ==
    \/ \E value \in CheckedSettings : OverrideCheckedSetting(value)
    \/ RunCheck
    \/ CallReturns

SpecChecks == InitChecks /\ [][NextChecks]_vars

\* ========================================================================
\* Properties
\* ========================================================================

\* the merged variable rule set of the current settings
MergedBlacklist == variable_blacklist(settings.SHOUTY_VARIABLE_BLACKLIST)

\* a lookup went through the installed variable hook and the host signalled
\* VariableDoesNotExist
HookedFailedLookup ==
    /\ last.op = "resolve_lookup"
    /\ last.installed = "new"
    /\ last.host.kind = "VariableDoesNotExist"

\* the suppression policy on the failed lookup: whole expression, located
\* template name, located candidate names
LookupSilenced ==
    is_silenced(last.var, last.located.template_name, MergedBlacklist,
                last.located.all_template_names)

\* C1: with the variable hook installed, on every lookup for which the host
\* signals VariableDoesNotExist and for every merged rule set,
\* new_resolve_lookup raises MissingVariable if and only if the suppression
\* policy does not silence (whole expression, located template name, located
\* candidate names).
C1_RaisesIffNotSilenced ==
    HookedFailedLookup =>
        (last.outcome.kind = "MissingVariable" <=> ~LookupSilenced)

\* C2: is_silenced returns True exactly when (a) ANY_TEMPLATE is in the
\* expression's scope list, or (b) the resolved template name is in it, or
\* (c) some candidate name is in it, or (d) some candidate name is in the
\* any-variable scope list, or (e) the resolved template name is in the
\* any-variable scope list; otherwise it returns False.
C2_IsSilencedIffSomeClause ==
    last.op = "is_silenced" =>
        LET this_var == Elems(Get(last.blacklist, last.whole_var))
            any_var == Elems(Get(last.blacklist, ANY_VARIABLE))
            candidates == Elems(last.all_template_names)
        IN  last.value = (\/ ANY_TEMPLATE \in this_var
                          \/ last.template_name \in this_var
                          \/ candidates \cap this_var # {}
                          \/ candidates \cap any_var # {}
                          \/ last.template_name \in any_var)

\* a call silenced by clause (e) alone
C2_Witness ==
    /\ last.op = "is_silenced"
    /\ last.value = TRUE
    /\ last.template_name \in Elems(Get(last.blacklist, ANY_VARIABLE))
    /\ Get(last.blacklist, last.whole_var) = <<>>
    /\ Elems(last.all_template_names) \cap
           Elems(Get(last.blacklist, ANY_VARIABLE)) = {}

Silenced(F, R) ==
    is_silenced(F.whole_var, F.template_name, R, F.all_template_names)

\* C3: is_silenced is monotonic in the rule set: when the mapping gains
\* (variable, template) entries, a failure that was silenced stays silenced.
C3_IsSilencedMonotonic ==
    [][Silenced(failure, rules) => Silenced(failure, rules')]_vars

\* a silenced failure whose rule mapping has since gained an entry
C3_Witness ==
    /\ last.op = "extend_rules"
    /\ last.silenced_before
    /\ Silenced(failure, rules)

UserPairs(user_blacklist) ==
    IF user_blacklist.kind = "dict" THEN Pairs(user_blacklist.items)
    ELSE {<<v, ANY_TEMPLATE>> : v \in Elems(user_blacklist.elements)}

\* C4: the merged variable rule set holds every (variable, template) pair of
\* VARIABLE_BLACKLIST and IF_VARIABLE_BLACKLIST, every pair of a user
\* mapping, the pair (v, ANY_TEMPLATE) for every entry v of a user flat list,
\* and no other pair.
C4_MergedExtendsBuiltins ==
    Pairs(MergedBlacklist) =
        Pairs(VARIABLE_BLACKLIST) \cup Pairs(IF_VARIABLE_BLACKLIST)
            \cup UserPairs(settings.SHOUTY_VARIABLE_BLACKLIST)

\* a lookup made under a flat user list naming a variable the built-in
\* tables also name
C4_Witness ==
    /\ last.op = "resolve_lookup"
    /\ settings.SHOUTY_VARIABLE_BLACKLIST.kind = "list"
    /\ In("subtitle", settings.SHOUTY_VARIABLE_BLACKLIST.elements)
    /\ <<"subtitle", ANY_TEMPLATE>> \in Pairs(MergedBlacklist)
    /\ <<"subtitle", "admin/base.html">> \in Pairs(MergedBlacklist)

\* C5: whenever a failed lookup is suppressed by a rule, the variable hook
\* re-raises the host's VariableDoesNotExist unchanged; it neither raises
\* MissingVariable nor returns a value of its own.
C5_SuppressedReraisesOriginal ==
    (HookedFailedLookup /\ LookupSilenced) => last.outcome = last.host

HookEnabled(c, t) ==
    IF c = "URLNode" THEN IsTrue(t.invalid_urls) ELSE IsTrue(t.invalid_variables)

\* a call of patch() or Shout.ready() has just run
PatchCalled(l) == l.op \in {"patch", "ready"}

\* C6: patch is idempotent: with DEBUG on, a call made when every hook its
\* arguments enable is already flagged (the state a call with the same
\* arguments leaves) changes no hook, flag or assignment count, and no hook
\* is ever assigned more than once.
C6_PatchIdempotent ==
    [][/\ \A c \in Classes : installs'[c] <= 1
       /\ (/\ last = NoCall
           /\ PatchCalled(last')
           /\ last'.DEBUG
           /\ \A c \in Classes : HookEnabled(c, last') => shouty[c])
          => (hook' = hook /\ shouty' = shouty /\ installs' = installs)]_vars

\* a call that found all three hooks installed and assigned nothing
C6_Witness ==
    /\ last.op = "patch"
    /\ last.DEBUG
    /\ IsTrue(last.invalid_variables)
    /\ IsTrue(last.invalid_urls)
    /\ last.value = "True"
    /\ last.before = Globals
    /\ \A c \in Classes : hook[c] = "new" /\ shouty[c] /\ installs[c] = 1

\* C7: with DEBUG off, patch returns False, installs no hook and sets no
\* flag, whatever its arguments; Shout.ready with the default (True)
\* arguments installs all three hooks when DEBUG is on and none when off.
C7_NoActivationWithoutDebug ==
    [][(last = NoCall /\ PatchCalled(last')) =>
          /\ ~settings.DEBUG =>
                /\ last'.value = "False"
                /\ hook' = hook
                /\ shouty' = shouty
                /\ installs' = installs
          /\ (/\ settings.DEBUG
              /\ last'.op = "ready"
              /\ IsTrue(last'.invalid_variables)
              /\ IsTrue(last'.invalid_urls))
             => \A c \in Classes : hook'[c] = "new" /\ shouty'[c]]_vars

\* Shout.ready has run with DEBUG off and the default arguments
C7_Witness ==
    /\ last.op = "ready"
    /\ ~last.DEBUG
    /\ IsTrue(last.invalid_variables)
    /\ IsTrue(last.invalid_urls)
    /\ last.value = "False"
    /\ \A c \in Classes : hook[c] = "old" /\ ~shouty[c]

\* C8: there is no patched-to-unpatched transition: a hook that is installed
\* with its flag set stays installed with its flag set in every later state.
C8_NoUnpatch ==
    [][\A c \in Classes :
          (hook[c] = "new" /\ shouty[c]) => (hook'[c] = "new" /\ shouty'[c])]_vars

\* a call with the URL diagnostics off has run after the URL hook was
\* installed
C8_Witness ==
    /\ last.op = "patch"
    /\ last.DEBUG
    /\ ~IsTrue(last.invalid_urls)
    /\ last.before.shouty["URLNode"]
    /\ hook["URLNode"] = "new"
    /\ shouty["URLNode"]

\* C9: concurrent calls of patch() with the same arguments: in every state a
\* set flag implies the hook is installed, a hook is assigned at most once
\* per call, and when all calls have returned the state is that of a single
\* call (every enabled hook installed and flagged, nothing else touched).
C9_ConcurrentPatchBenign ==
    /\ \A c \in Classes : shouty[c] => hook[c] = "new"
    /\ \A c \in Classes : installs[c] <= NumThreads
    /\ (\A i \in Threads : threads[i].pc = "done") =>
          \A c \in Classes :
             IF settings.DEBUG /\ HookEnabled(c, threads[1])
             THEN hook[c] = "new" /\ shouty[c]
             ELSE hook[c] = "old" /\ ~shouty[c] /\ installs[c] = 0

\* both calls have returned after racing on the variable hook
C9_Witness ==
    /\ \A i \in Threads : threads[i].pc = "done"
    /\ installs["Variable"] = 2
    /\ hook["Variable"] = "new"
    /\ shouty["Variable"]

\* the suppression policy does not silence the failure of var located at loc
Loud(var, loc) ==
    ~is_silenced(var, loc.template_name, MergedBlacklist,
                 loc.all_template_names)

\* the variables among the leaves of the conditional just rendered that the
\* host cannot resolve and the suppression policy does not silence
UnresolvedLoudLeaves ==
    LET leaves == CollectConditions(last.ifnode.conditions_nodelists, <<>>)
        node == SceneNode(last.arrangement)
    IN  {leaves[i].var : i \in
            {j \in DOMAIN leaves :
                /\ leaves[j].var # None
                /\ old_resolve_lookup(leaves[j].var, last.context).kind
                       = "VariableDoesNotExist"
                /\ Loud(leaves[j].var,
                        LocateOrFallBack(last.context, Text(leaves[j].var),
                                         node))}}

\* C10: rendering a conditional force-evaluates every leaf of the if and
\* elif conditions: if some leaf is an unresolvable, non-silenced variable,
\* rendering raises MissingVariable for such a leaf, whatever the values of
\* the other operands and whether or not short-circuit evaluation reaches it.
C10_ForcedLeavesRaise ==
    (/\ last.op = "if_render"
     /\ last.installed = "new"
     /\ last.installed_var = "new"
     /\ UnresolvedLoudLeaves # {})
    => (/\ last.outcome.kind = "MissingVariable"
        /\ last.outcome.token \in UnresolvedLoudLeaves)

\* the host's own render of the conditional just rendered, its leaves
\* resolving through whatever variable hook is installed
HostRenderOfLast ==
    old_if_render(last.installed_var, last.ifnode.conditions_nodelists,
                  last.context, SceneNode(last.arrangement),
                  settings.SHOUTY_VARIABLE_BLACKLIST)

\* C11: during the forced evaluation of conditional leaves only
\* MissingVariable propagates out of the conditional hook: every other
\* exception a forced leaf raises is discarded and the render is the host's
\* own render of the conditional, so the hook's outcome is MissingVariable or
\* the outcome of the host's render.
C11_OnlyMissingVariablePropagates ==
    (last.op = "if_render" /\ last.installed = "new")
    => \/ last.outcome.kind = "MissingVariable"
       \/ last.outcome = HostRenderOfLast

\* the conditional just rendered raised the exhaustiveness diagnostic
ExhaustivenessRaised ==
    /\ last.outcome.kind = "MissingVariable"
    /\ last.outcome.message = "No else statement found"
    /\ last.outcome.token = last.ifnode.contents

\* the if/else rule set of the current settings silences the condition of
\* the conditional just rendered
ConditionSilenced ==
    is_silenced(last.ifnode.contents, last.located.template_name,
                if_else_blacklist(settings.SHOUTY_VARIABLE_BLACKLIST),
                last.located.all_template_names)

\* C12: rendering a conditional chain raises the exhaustiveness
\* MissingVariable (token = the if tag's contents) exactly when the chain
\* has an elif branch and no else branch and the if/else rule set does not
\* silence the condition, whatever the condition variables are bound to; a
\* chain with an else, or an if without elif, never raises it.
C12_ExhaustivenessIffGapNotSilenced ==
    (last.op = "if_render" /\ last.installed = "new")
    => (ExhaustivenessRaised
           <=> (/\ ExhaustivenessGap(last.ifnode.conditions_nodelists)
                /\ ~ConditionSilenced))

\* the URL tag just rendered was asked to bind its result and the host
\* bound the empty string
BoundEmpty ==
    /\ last.asvar # None
    /\ last.host.context.bindings[last.asvar] = ""

\* the pair (view name, output variable) is in URL_BLACKLIST or in the
\* user's SHOUTY_URL_BLACKLIST
UrlListed ==
    <<last.view_name, last.asvar>>
        \in Elems(URL_BLACKLIST) \cup Elems(settings.SHOUTY_URL_BLACKLIST)

\* C13: the URL hook raises MissingVariable, with token the pair (view
\* name, output variable name), exactly when the tag binds its result to a
\* variable, the value bound after the host's render is the empty string
\* and the pair is in neither URL_BLACKLIST nor SHOUTY_URL_BLACKLIST; in
\* every other case the outcome is the host's, unchanged.
C13_UrlRaisesIffBoundEmptyUnlisted ==
    (last.op = "url_render" /\ last.installed = "new")
    => IF BoundEmpty /\ ~UrlListed
       THEN /\ last.outcome.kind = "MissingVariable"
            /\ last.outcome.token = <<last.view_name, last.asvar>>
       ELSE /\ last.outcome.kind = last.host.outcome.kind
            /\ last.outcome.value = last.host.outcome.value

\* the deduplicated candidates of the locator call just made, each as the
\* (template name, source) the loop derives from it
Searched ==
    Candidates(last.context, ContextsToSearch(last.context, last.node))

\* the locator call just made returned (no exception left it)
Located == last.op = "locate" /\ ~last.value.fault

\* the name the loop appends for a candidate
NameOf(c) == IF c.template_name = None THEN UNKNOWN_SOURCE ELSE c.template_name

\* C14: the locator returns the names of the full deduplicated candidate
\* list whichever candidate matched: the returned name list has one name for
\* every deduplicated candidate, those after the winner included.
C14_AllCandidateNamesReturned ==
    Located =>
        /\ Len(last.value.all_template_names) >= Len(Searched)
        /\ \A i \in 1..Len(Searched) :
              last.value.all_template_names[i] = NameOf(Searched[i])

\* candidate c yields a match: the token has a position and the part
\* occurs in the candidate's source at or after it
YieldsMatch(c) ==
    /\ last.node.found
    /\ last.node.position # NoPosition
    /\ \E i \in last.node.position..(Len(c.source) - Len(last.part)) :
          SubSeq(c.source, i + 1, i + Len(last.part)) = last.part

\* C15: when no candidate yields a match for the failing substring the
\* locator returns the unknown-source sentinel as template name, an empty
\* debug payload and a candidate name list that contains the sentinel.
C15_NoMatchFallsBackToUnknown ==
    (Located /\ \A i \in 1..Len(Searched) : ~YieldsMatch(Searched[i]))
    => /\ last.value.template_name = UNKNOWN_SOURCE
       /\ last.value.exc_info = NoExcInfo
       /\ In(UNKNOWN_SOURCE, last.value.all_template_names)

\* a call that went through two named candidates without a match: the
\* sentinel is in the list only because the fall-back added it
C15_Witness ==
    /\ Located
    /\ Len(Searched) = 2
    /\ \A i \in 1..Len(Searched) :
          ~YieldsMatch(Searched[i]) /\ Searched[i].template_name # None
    /\ last.value.template_name = UNKNOWN_SOURCE
    /\ Len(last.value.all_template_names) = 3

\* the candidates in the priority order of the claim: the extends chain,
\* the render context's template, the outer context's template, the
\* Template values of the flattened scopes; first occurrence kept
ClaimedOrder ==
    LET render_context == last.context.render_context
    IN  Candidates(last.context,
            Dedup(<<>>,
                  render_context.extends_context
                  \o (IF render_context.template.kind # "None"
                      THEN <<render_context.template>> ELSE <<>>)
                  \o (IF last.context.template.kind # "None"
                      THEN <<last.context.template>> ELSE <<>>)
                  \o TemplatesIn(render_context.flat)
                  \o TemplatesIn(last.context.flat)))

\* C16: the locator searches the candidates in the order extends chain,
\* render-context template, outer-context template, Template values of the
\* flattened scopes (deduplicated, first occurrence kept) and the first
\* candidate in that order whose source yields a match wins: an earlier
\* candidate containing the substring is never passed over for a later one.
C16_FirstInPriorityOrderWins ==
    (Located /\ \E i \in 1..Len(ClaimedOrder) : YieldsMatch(ClaimedOrder[i]))
    => LET w == CHOOSE i \in 1..Len(ClaimedOrder) :
                    /\ YieldsMatch(ClaimedOrder[i])
                    /\ \A j \in 1..(i - 1) : ~YieldsMatch(ClaimedOrder[j])
       IN  /\ ~last.value.exc_info.empty
           /\ last.value.exc_info.name = ClaimedOrder[w].template_name

\* the offsets of the part in src
Occurrences(src, part) ==
    {i \in 0..(Len(src) - Len(part)) : SubSeq(src, i + 1, i + Len(part)) = part}

\* seq without the elements that occurred earlier in it
KeepFirst(seq) ==
    LET keep == {i \in 1..Len(seq) : \A j \in 1..(i - 1) : seq[j] # seq[i]}
    IN  [k \in 1..Cardinality(keep) |->
            seq[CHOOSE i \in keep : Cardinality({j \in keep : j < i}) = k - 1]]

\* the priority order with the originating node's origin ahead of the
\* extends chain
OriginFirstOrder ==
    LET render_context == last.context.render_context
    IN  Candidates(last.context,
            KeepFirst((IF last.node.found THEN <<last.node.origin>> ELSE <<>>)
                      \o render_context.extends_context
                      \o (IF render_context.template.kind # "None"
                          THEN <<render_context.template>> ELSE <<>>)
                      \o (IF last.context.template.kind # "None"
                          THEN <<last.context.template>> ELSE <<>>)
                      \o TemplatesIn(render_context.flat)
                      \o TemplatesIn(last.context.flat)))

\* C16 (amended): whenever the locator returns, the candidates are searched
\* in the order originating node's origin, extends chain, render-context
\* template, outer-context template, Template values of the flattened
\* scopes (deduplicated, first occurrence kept); the first candidate in
\* that order whose source has the substring at or after the token's
\* offset wins, with the first such offset as the start of the span, and
\* when there is none no span is returned.
C16_FirstInOriginFirstOrderWins ==
    Located =>
        IF \E i \in 1..Len(OriginFirstOrder) : YieldsMatch(OriginFirstOrder[i])
        THEN LET w == CHOOSE i \in 1..Len(OriginFirstOrder) :
                          /\ YieldsMatch(OriginFirstOrder[i])
                          /\ \A j \in 1..(i - 1) :
                                ~YieldsMatch(OriginFirstOrder[j])
                 src == OriginFirstOrder[w].source
             IN  /\ ~last.value.exc_info.empty
                 /\ last.value.exc_info.name = OriginFirstOrder[w].template_name
                 /\ last.value.exc_info.start >= last.node.position
                 /\ last.value.exc_info.start \in Occurrences(src, last.part)
                 /\ \A i \in Occurrences(src, last.part) :
                       i >= last.node.position => last.value.exc_info.start <= i
        ELSE last.value.exc_info.empty

\* the node's origin and an extends chain were searched, and the winner
\* came after two candidates that gave no match
C16_Witness ==
    /\ Located
    /\ last.node.found
    /\ last.context.render_context.extends_context # <<>>
    /\ ~last.value.exc_info.empty
    /\ Len(last.value.all_template_names) >= 3

\* offset i of src lies inside a template comment: after a {# that no #}
\* has closed
InComment(src, i) ==
    \E o \in 0..(i - 2) :
        /\ SubSeq(src, o + 1, o + 2) = <<"{", "#">>
        /\ \A c \in (o + 2)..(i - 2) : SubSeq(src, c + 1, c + 2) # <<"#", "}">>

\* C17: the occurrence the locator reports is part of a variable or tag and
\* never lies inside a template comment: when the winning candidate's
\* source has the substring both inside a comment and inside a variable or
\* tag, the returned span is not within the comment.
C17_SpanNotInComment ==
    (Located /\ ~last.value.exc_info.empty)
    => LET src == Searched[Len(last.value.all_template_names)].source
           hits == Occurrences(src, last.part)
       IN  ((\E i \in hits : InComment(src, i))
               /\ (\E i \in hits : ~InComment(src, i)))
           => ~InComment(src, last.value.exc_info.start)

\* the diagnostic of a failure whose location could not be computed
Unlocated(outcome) ==
    /\ outcome.kind = "MissingVariable"
    /\ outcome.template_name = UNKNOWN_SOURCE
    /\ outcome.all_template_names = <<UNKNOWN_SOURCE>>
    /\ outcome.template_debug.empty

\* C18: an exception raised inside the source locator is caught and degrades
\* to (unknown source, [unknown source], empty payload), and the hook goes
\* on to its raise-or-suppress decision: a failed lookup whose location
\* faulted ends in the unlocated MissingVariable or in the suppressed
\* outcome, and a conditional whose exhaustiveness location faulted ends in
\* MissingVariable or in the host's render, never in another exception.
C18_LocatorFaultStillDecides ==
    /\ (/\ last.op = "resolve_lookup"
        /\ last.installed = "new"
        /\ last.host.kind = "VariableDoesNotExist"
        /\ last.located.fault)
       => \/ Unlocated(last.outcome)
          \/ last.outcome = last.host
          \/ last.outcome = [Returned(None) EXCEPT !.located = TRUE]
    /\ (/\ last.op = "if_render"
        /\ last.installed = "new"
        /\ ExhaustivenessGap(last.ifnode.conditions_nodelists)
        /\ last.located.fault)
       => \/ last.outcome.kind = "MissingVariable"
          \/ last.outcome = HostRenderOfLast

\* C19: a failure inside the suggestion engine (enumerating the names of
\* the value being navigated, e.g. a mapping whose keys are not strings) is
\* caught and degrades to no suggestions: the variable hook still raises
\* MissingVariable or suppresses, and no other exception escapes.
C19_SuggestionFaultStillDecides ==
    (/\ last.op = "resolve_lookup"
     /\ last.installed = "new"
     /\ last.host.kind = "VariableDoesNotExist"
     /\ possibilities_fault(last.host.current))
    => \/ last.outcome.kind = "MissingVariable"
       \/ last.outcome = last.host
       \/ last.outcome = [Returned(None) EXCEPT !.located = TRUE]

\* the elements of the flat iterable just checked that are not strings
NonStrings ==
    SelectSeq(Iterate(last.user_blacklist), LAMBDA v : v.type # "str")

CheckedItems ==
    {last.user_blacklist.items[i] : i \in DOMAIN last.user_blacklist.items}

\* the errors just returned that name the key var, or the any-variable key
\* when var is that key
ErrorsAbout(var) ==
    {last.errors[i] : i \in
        {j \in DOMAIN last.errors :
            \/ last.errors[j].arg = Repr(var)
            \/ /\ var = PyStr(ANY_VARIABLE)
               /\ last.errors[j].msg
                     = "Magic variable * has an unexpected templates defintion"}}

\* value is a tuple of strings
StringsOnly(value) ==
    /\ value.type = "tuple"
    /\ \A i \in DOMAIN value.elements : value.elements[i].type = "str"

\* C21: for a mapping, the any-variable key with an empty template list, or
\* with a template list holding the any-template sentinel (even next to
\* concrete names), is reported with the magic-variable error; the
\* any-variable key with a non-empty list of concrete names gives no error.
C21_AnyVariableKeyErrors ==
    (last.op = "check_user_blacklists" /\ last.user_blacklist.type = "dict")
    => \A item \in CheckedItems :
          (item[1] = PyStr(ANY_VARIABLE) /\ StringsOnly(item[2]))
          => IF item[2].elements = <<>>
                    \/ In(PyStr(ANY_TEMPLATE), item[2].elements)
             THEN \E e \in ErrorsAbout(item[1]) :
                     e.msg = "Magic variable * has an unexpected templates defintion"
             ELSE ErrorsAbout(item[1]) = {}

\* the any-variable key was checked with a concrete name and the
\* any-template sentinel
C21_Witness ==
    /\ last.op = "check_user_blacklists"
    /\ \E item \in CheckedItems :
          /\ item[1] = PyStr(ANY_VARIABLE)
          /\ item[2] = PyTuple(<<PyStr("a"), PyStr(ANY_TEMPLATE)>>)
    /\ last.errors # <<>>

\* user_blacklist is a flat tuple of strings, or a mapping from strings to
\* non-empty tuples of strings with no any-template sentinel under the
\* any-variable key
WellFormed(user_blacklist) ==
    \/ StringsOnly(user_blacklist)
    \/ /\ user_blacklist.type = "dict"
       /\ \A i \in DOMAIN user_blacklist.items :
             LET var == user_blacklist.items[i][1]
                 templates == user_blacklist.items[i][2]
             IN  /\ var.type = "str"
                 /\ StringsOnly(templates)
                 /\ templates.elements # <<>>
                 /\ var = PyStr(ANY_VARIABLE)
                       => ~In(PyStr(ANY_TEMPLATE), templates.elements)

\* C22: check_user_blacklists returns no error for a well-formed
\* configuration: a flat tuple of strings, or a mapping from string keys to
\* non-empty lists of template names, the unknown-source name and (under a
\* key other than the any-variable key) the any-template sentinel included.
C22_WellFormedHasNoErrors ==
    (last.op = "check_user_blacklists" /\ WellFormed(last.user_blacklist))
    => last.errors = <<>>

\* a mapping from a variable to the any-template sentinel and a concrete
\* name was checked
C22_Witness ==
    /\ last.op = "check_user_blacklists"
    /\ last.user_blacklist
         = PyDict(<<<<PyStr("a"), PyTuple(<<PyStr("a"), PyStr(ANY_TEMPLATE)>>)>>>>)
    /\ last.errors = <<>>

\* C23: for a mapping, every entry whose key is not a string, whose value
\* is not an iterable of strings (a list with a non-string element and a
\* bare string included) or whose value is empty contributes at least one
\* error, whatever the other entries are.
C23_EveryBadEntryReported ==
    (last.op = "check_user_blacklists" /\ last.user_blacklist.type = "dict")
    => \A item \in CheckedItems :
          (\/ item[1].type # "str"
           \/ ~StringsOnly(item[2])
           \/ item[2].elements = <<>>)
          => ErrorsAbout(item[1]) # {}

\* C24: every MissingVariable the variable hook raises has token equal to
\* the failing token (the bit of the path that did not resolve),
\* template_name equal to the locator's template name and
\* all_template_names equal to the locator's candidate names.
C24_StructuredFields ==
    (/\ last.op = "resolve_lookup"
     /\ last.installed = "new"
     /\ last.outcome.kind = "MissingVariable")
    => /\ last.outcome.token = last.host.bit
       /\ last.outcome.template_name = last.located.template_name
       /\ last.outcome.all_template_names = last.located.all_template_names

\* C25: the leaves of a conditional are force-evaluated only after the host
\* rendered it to nothing: when the host's render of the conditional gives
\* output, the conditional hook raises no MissingVariable for a leaf (the
\* only MissingVariable it can raise is the exhaustiveness diagnostic).
C25_NoForcingWhenHostRendersOutput ==
    (/\ last.op = "if_render"
     /\ last.installed = "new"
     /\ HostRenderOfLast.kind = "return"
     /\ HostRenderOfLast.value # 0)
    => (last.outcome.kind = "MissingVariable" => ExhaustivenessRaised)

\* the configuration more has every rule of the configuration fewer
AddsRules(fewer, more) ==
    /\ fewer.kind = more.kind
    /\ Elems(fewer.elements) \subseteq Elems(more.elements)
    /\ DOMAIN fewer.items \subseteq DOMAIN more.items
    /\ \A k \in DOMAIN fewer.items :
          Elems(fewer.items[k]) \subseteq Elems(more.items[k])

\* the failed lookup just made by the variable hook, made again under the
\* configuration user_blacklist
LastLookupUnder(user_blacklist) ==
    OnVariableDoesNotExist(last.host, last.var,
        SceneContext(last.arrangement, Text(last.var), [k \in {} |-> "True"]),
        SceneNode(last.arrangement), variable_blacklist(user_blacklist))

\* C26: the variable hook is monotonic in the user configuration: when a
\* failed lookup does not raise MissingVariable under configuration R, it
\* does not raise MissingVariable under any configuration that adds rules
\* to R (new keys, the any-variable key, more templates for a key), also
\* when R maps the variable to an empty template list.
C26_MonotonicInConfiguration ==
    (HookedFailedLookup /\ last.outcome.kind # "MissingVariable")
    => \A more \in UserBlacklists :
          AddsRules(settings.SHOUTY_VARIABLE_BLACKLIST, more)
          => LastLookupUnder(more).kind # "MissingVariable"

\* C27: the exhaustiveness check precedes the forced evaluation of the
\* leaves: a MissingVariable of the conditional hook that is not the
\* exhaustiveness diagnostic (so the missing-variable diagnostic of a leaf)
\* is raised only when the chain has no exhaustiveness gap or the gap is
\* silenced; with a gap that is not silenced the exception is the
\* exhaustiveness diagnostic for the if tag.
C27_ExhaustivenessPrecedesForcing ==
    (/\ last.op = "if_render"
     /\ last.installed = "new"
     /\ last.outcome.kind = "MissingVariable"
     /\ ~ExhaustivenessRaised)
    => \/ ~ExhaustivenessGap(last.ifnode.conditions_nodelists)
       \/ ConditionSilenced

\* C28: whenever the locator reports a span [start, end) it is a span of
\* the source of a searched candidate of the reported name: end - start is
\* the length of the searched substring, source[start:end] and the reported
\* text are that substring, and start is the first occurrence of it at or
\* after the start offset of the originating node's token.
C28_SpanIsFirstOccurrenceFromToken ==
    (Located /\ ~last.value.exc_info.empty)
    => \E k \in 1..Len(Searched) :
          /\ Searched[k].template_name = last.value.exc_info.name
          /\ last.value.exc_info.end - last.value.exc_info.start = Len(last.part)
          /\ last.value.exc_info.during = last.part
          /\ last.value.exc_info.end <= Len(Searched[k].source)
          /\ SubSeq(Searched[k].source, last.value.exc_info.start + 1,
                    last.value.exc_info.end) = last.part
          /\ last.value.exc_info.start >= last.node.position
          /\ \A i \in Occurrences(Searched[k].source, last.part) :
                i >= last.node.position => last.value.exc_info.start <= i

\* the span reported is the second occurrence in the source, the first one
\* lying before the token
C28_Witness ==
    /\ Located
    /\ ~last.value.exc_info.empty
    /\ last.node.position > 0
    /\ last.value.exc_info.start >= last.node.position
    /\ \E k \in 1..Len(Searched) :
          \E i \in Occurrences(Searched[k].source, last.part) :
             i < last.node.position

\* C29: in every result of the locator the candidate name list is not
\* empty and contains the resolved template name, whatever the candidate
\* chain is (origins with no name or the empty name included).
C29_NamesContainResolvedName ==
    Located =>
        /\ last.value.all_template_names # <<>>
        /\ In(last.value.template_name, last.value.all_template_names)

\* C30: the variable hook is transparent on success: a lookup the host
\* resolves returns through the hook exactly what the host returns and
\* raises nothing, whatever the suppression configuration is.
C30_TransparentOnSuccess ==
    (/\ last.op = "resolve_lookup"
     /\ last.installed = "new"
     /\ last.host.kind = "return")
    => last.outcome = last.host

====
